---- MODULE Spec2Model ----
(***************************************************************************)
(* DDR bring-up of the Agilex5 SDRAM driver                                *)
(* (drivers/ddr/altera/sdram_agilex5.c, sdram_mmr_init_full and helpers).  *)
(*                                                                         *)
(* 32-bit registers and words are modelled as the set of their set bit     *)
(* positions (a subset of 0..31), so that masking, shifting and bit        *)
(* set/clear are computed as the code computes them.                       *)
(* Byte quantities (phys_size_t, phys_addr_t) are counted in units of      *)
(* 0x8000000 bytes (128 MiB = SZ_1G / SZ_8), the granularity of hw_size.   *)
(***************************************************************************)
EXTENDS Integers, FiniteSets, Sequences, TLC

VARIABLES
    boot,                \* number of the current boot (1..MaxBoots)
    prev_run,            \* how the run of the previous boot ended
    pc,                  \* position inside sdram_mmr_init_full
    scratch_por0,        \* SYSMGR_SOC64_BOOT_SCRATCH_POR0 (persistent)
    scratch_cold3,       \* SYSMGR_SOC64_BOOT_SCRATCH_COLD3 (persistent)
    nr_dram_banks,       \* CONFIG_NR_DRAM_BANKS of the build
    reset_t,             \* local: enum reset_type
    is_ddr_hang_be4_rst, \* local: is_ddr_init_hang() sampled on entry
    full_mem_init,       \* local
    ret,                 \* value returned to the caller (0 while running)
    err,                 \* which fatal exit was taken ("none" while running)
    handoff_ok,          \* did socfpga_handoff_read fill the table
    handoff_word,        \* handoff_table[PORT_EMIF_CONFIG_OFFSET]
    plat,                \* struct altera_sdram_plat: dualport, dualemif
    io96b_ctrl,          \* struct io96b_info
    heap,                \* state of the malloc'ed io96b_ctrl
    sideband,            \* SIDEBANDMGR_FLAGOUTSET0 bits set by this run
    mpfe_config,         \* SYSMGR_SOC64_MPFE_CONFIG bits set by this run
    ccu_profile,         \* names of the CCU profiles activated in this run
    trig_count,          \* calls of trig_mem_cal in this run
    bist_count,          \* calls of bist_mem_init_start in this run
    hw_size,             \* local: hardware size
    gd_ram_size,         \* gd->ram_size
    bd,                  \* struct bd_info: bi_dram[0..nr_dram_banks-1]
    warned,              \* the size mismatch warning was printed
    firewall,            \* firewall CSR registers written in this run
    priv_info            \* priv->info: base, size

vars == << boot, prev_run, pc, scratch_por0, scratch_cold3, nr_dram_banks, reset_t,
           is_ddr_hang_be4_rst, full_mem_init, ret, err, handoff_ok,
           handoff_word, plat, io96b_ctrl, heap, sideband, mpfe_config,
           ccu_profile, trig_count, bist_count, hw_size, gd_ram_size, bd,
           warned, firewall, priv_info >>

(***************************************************************************)
(* Bounds of the model.                                                    *)
(***************************************************************************)
MaxBoots == 2

(***************************************************************************)
(* Bit-level helpers (linux/bits.h, linux/bitfield.h, asm/io.h).           *)
(***************************************************************************)
BIT(n) == {n}

GENMASK(h, l) == l..h

RECURSIVE Pow2(_)
Pow2(n) == IF n = 0 THEN 1 ELSE 2 * Pow2(n - 1)

RECURSIVE Val(_)
Val(bits) ==
    IF bits = {} THEN 0
    ELSE LET b == CHOOSE x \in bits : TRUE
         IN  Pow2(b) + Val(bits \ {b})

AndBits(reg, mask) == reg \cap mask

ShiftRight(bits, n) == {b - n : b \in {x \in bits : x >= n}}

LowestBit(mask) == CHOOSE b \in mask : \A c \in mask : b <= c

FIELD_GET(mask, reg) == Val(ShiftRight(AndBits(reg, mask), LowestBit(mask)))

setbits_le32(reg, mask) == reg \cup mask

clrbits_le32(reg, mask) == reg \ mask

(***************************************************************************)
(* Constants of the driver.                                                *)
(***************************************************************************)
EMIF_PLL_MASK == GENMASK(19, 16)
MEMORY_BANK_MAX_COUNT == 3

POR_RESET == 0
WARM_RESET == 1
COLD_RESET == 2
NCONFIG == 3
JTAG_CONFIG == 4
RSU_RECONFIG == 5

reset_type == {POR_RESET, WARM_RESET, COLD_RESET, NCONFIG, JTAG_CONFIG, RSU_RECONFIG}

\* asm/arch/system_manager.h
ALT_SYSMGR_SCRATCH_REG_3_DDR_RESET_TYPE_MASK == GENMASK(31, 29)
ALT_SYSMGR_SCRATCH_REG_3_DDR_RESET_TYPE_SHIFT == 29
ALT_SYSMGR_SCRATCH_REG_3_DDR_DBE_MASK == BIT(1)
ALT_SYSMGR_SCRATCH_REG_3_OCRAM_DBE_MASK == BIT(0)
ALT_SYSMGR_SCRATCH_REG_POR_0_DDR_PROGRESS_MASK == BIT(0)

\* linux/sizes.h, in units of 0x8000000 bytes
SZ_1G == 8
SZ_8 == 8

\* errno.h
ENXIO == 6
EIO == 5
ENODEV == 19

\* dram_bank_info[], start and max_size in units of 0x8000000 bytes:
\* {0x80000000, 0x80000000}, {0x880000000, 0x780000000},
\* {0x8800000000, 0x7800000000}
dram_bank_info ==
    (0 :> [start |-> 16,   max_size |-> 16]) @@
    (1 :> [start |-> 272,  max_size |-> 240]) @@
    (2 :> [start |-> 4352, max_size |-> 3840])

\* io96b_csr_reg_addr[]: 0x18400000, 0x18800000 (kept as names)
io96b_csr_reg_addr == (0 :> "IO96B_0_CSR") @@ (1 :> "IO96B_1_CSR")

(***************************************************************************)
(* Values the environment can supply.                                      *)
(***************************************************************************)
\* Bits of BOOT_SCRATCH_COLD3 owned by other drivers.
Cold3Foreign == BIT(8)

\* BOOT_SCRATCH_COLD3 as left by the earlier boot stages: any reset-type
\* field, any DBE markers.
Cold3Values ==
    { t \cup d \cup Cold3Foreign : t \in SUBSET GENMASK(31, 29),
                                   d \in SUBSET GENMASK(1, 0) }

\* Bits of BOOT_SCRATCH_POR0 owned by other drivers.
Por0Foreign == BIT(4)

\* handoff_table[PORT_EMIF_CONFIG_OFFSET]: port/EMIF bits, PLL mask, and
\* bits outside the three fields.
HandoffWords ==
    { p \cup m \cup o : p \in SUBSET GENMASK(1, 0),
                        m \in {{}, {16, 19}},
                        o \in {{}, {2, 15, 20, 31}} }

\* io96b_ctrl->overall_size reported by get_mem_width_info (gigabits).
OverallSizes == {0, 16, 32, 264, 5120}

\* Memory nodes of the device tree: banks as decoded by
\* fdtdec_decode_ram_size; the empty layout declares size 0.
DtLayouts ==
    { << >>,
      << [start |-> 16, size |-> 16] >>,
      << [start |-> 16, size |-> 16], [start |-> 272, size |-> 16] >> }

\* CONFIG_NR_DRAM_BANKS of the builds considered.
NrDramBanksValues == {2, 3, 4}

NoBank == [start |-> 0, size |-> 0]

RECURSIVE SumSizes(_, _)
SumSizes(b, n) == IF n = 0 THEN 0 ELSE b[n - 1].size + SumSizes(b, n - 1)

(***************************************************************************)
(* Helpers of the driver.                                                  *)
(***************************************************************************)
get_reset_type(reg) ==
    Val(ShiftRight(AndBits(reg, ALT_SYSMGR_SCRATCH_REG_3_DDR_RESET_TYPE_MASK),
                   ALT_SYSMGR_SCRATCH_REG_3_DDR_RESET_TYPE_SHIFT))

\* the marker tested with | in place of &
is_ddr_init_hang_or(por0) ==
    setbits_le32(por0, ALT_SYSMGR_SCRATCH_REG_POR_0_DDR_PROGRESS_MASK) # {}

is_ddr_init_hang(por0) ==
    AndBits(por0, ALT_SYSMGR_SCRATCH_REG_POR_0_DDR_PROGRESS_MASK) # {}

\* ddr_init_inprogress that never writes the register
ddr_init_inprogress_noop(por0, start) == por0

\* ddr_init_inprogress that clears the whole register instead of the bit
ddr_init_inprogress_whole(por0, start) ==
    IF start
    THEN setbits_le32(por0, ALT_SYSMGR_SCRATCH_REG_POR_0_DDR_PROGRESS_MASK)
    ELSE {}

\* ddr_init_inprogress with the two branches exchanged
ddr_init_inprogress_swapped(por0, start) ==
    IF start
    THEN clrbits_le32(por0, ALT_SYSMGR_SCRATCH_REG_POR_0_DDR_PROGRESS_MASK)
    ELSE setbits_le32(por0, ALT_SYSMGR_SCRATCH_REG_POR_0_DDR_PROGRESS_MASK)

ddr_init_inprogress(por0, start) ==
    IF start
    THEN setbits_le32(por0, ALT_SYSMGR_SCRATCH_REG_POR_0_DDR_PROGRESS_MASK)
    ELSE clrbits_le32(por0, ALT_SYSMGR_SCRATCH_REG_POR_0_DDR_PROGRESS_MASK)

hps_ocram_dbe_status(cold3) ==
    AndBits(cold3, ALT_SYSMGR_SCRATCH_REG_3_OCRAM_DBE_MASK) # {}

ddr_ecc_dbe_status(cold3) ==
    AndBits(cold3, ALT_SYSMGR_SCRATCH_REG_3_DDR_DBE_MASK) # {}

\* populate_ddr_handoff: the fields taken from the handoff word
handoff_dualport(word) == FIELD_GET(BIT(0), word)

handoff_dualemif(word) == FIELD_GET(BIT(1), word)

handoff_num_port(word) == IF handoff_dualport(word) # 0 THEN 2 ELSE 1

handoff_num_instance(word) == IF handoff_dualemif(word) # 0 THEN 2 ELSE 1

\* the PLL field read one bit too wide
handoff_io96b_pll_wide(word) == FIELD_GET(GENMASK(20, 16), word)

handoff_io96b_pll(word) == FIELD_GET(EMIF_PLL_MASK, word)

\* interleaving asked for only when both dual port and dual EMIF are set
ccu_profile_name_both(p) ==
    IF p.dualport # 0 /\ p.dualemif # 0
    THEN "socfpga-secreg-ccu-interleaving-on"
    ELSE "socfpga-secreg-ccu-interleaving-off"

\* config_ccu_mgr: the profile asked for
ccu_profile_name(p) ==
    IF p.dualport # 0 \/ p.dualemif # 0
    THEN "socfpga-secreg-ccu-interleaving-on"
    ELSE "socfpga-secreg-ccu-interleaving-off"

\* sdram_mmr_init_full: number of banks the partition loop may fill
config_dram_banks(nr) ==
    IF nr > MEMORY_BANK_MAX_COUNT THEN MEMORY_BANK_MAX_COUNT ELSE nr

\* sdram_mmr_init_full: the bank filling loop, from bank i on
RECURSIVE bank_loop(_, _, _, _, _)
bank_loop(i, n, hw, size_counter, b) ==
    IF i >= n THEN b
    ELSE LET remaining_size == hw - size_counter
         IN  IF remaining_size <= dram_bank_info[i].max_size
             THEN [b EXCEPT ![i] = [start |-> dram_bank_info[i].start,
                                    size  |-> remaining_size]]
             ELSE bank_loop(i + 1, n, hw,
                            size_counter + dram_bank_info[i].max_size,
                            [b EXCEPT ![i] = [start |-> dram_bank_info[i].start,
                                              size  |-> dram_bank_info[i].max_size]])

\* sdram_mmr_init_full: hardware size from the reported overall size
hw_size_of(overall_size) == (overall_size * SZ_1G) \div SZ_8

\* recalibration triggered whatever the calibration flag says
need_recal_always(ctrl) == TRUE

\* sdram_mmr_init_full: the condition under which recalibration is triggered
need_recal(ctrl) == ~ctrl.overall_cal_status

\* the cold reset forgotten in the test of the reset type
need_full_init_warm_only(fmi, rt) == fmi \/ ~(rt = WARM_RESET)

\* sdram_mmr_init_full: the condition under which bist_mem_init_start runs
need_full_init(fmi, rt) == fmi \/ ~(rt = WARM_RESET \/ rt = COLD_RESET)

\* the hang flag left out of full_mem_init
full_mem_init_of_no_hang(cold3, hang_be4_rst) ==
    hps_ocram_dbe_status(cold3) \/ ddr_ecc_dbe_status(cold3)

\* sdram_mmr_init_full, lines 366-367
full_mem_init_of(cold3, hang_be4_rst) ==
    hps_ocram_dbe_status(cold3) \/ ddr_ecc_dbe_status(cold3) \/ hang_be4_rst

(***************************************************************************)
(* State at the entry of sdram_mmr_init_full.                              *)
(***************************************************************************)
Io96bFresh ==
    [ num_port           |-> 0,
      num_instance       |-> 0,
      io96b_pll          |-> 0,
      io96b_csr_addr     |-> [i \in 0..1 |-> "unset"],
      cal_status         |-> [i \in 0..1 |-> FALSE],
      overall_cal_status |-> FALSE,
      ckgen_lock         |-> FALSE,
      overall_size       |-> 0,
      ecc_status         |-> FALSE ]

\* Everything a reset of the processor forgets.
Volatile ==
    /\ pc = "entry"
    /\ reset_t = POR_RESET
    /\ is_ddr_hang_be4_rst = FALSE
    /\ full_mem_init = FALSE
    /\ ret = 0
    /\ err = "none"
    /\ handoff_ok = TRUE
    /\ handoff_word = {}
    /\ plat = [dualport |-> 0, dualemif |-> 0]
    /\ io96b_ctrl = Io96bFresh
    /\ heap = "none"
    /\ sideband = {}
    /\ mpfe_config = {}
    /\ ccu_profile = {}
    /\ trig_count = 0
    /\ bist_count = 0
    /\ hw_size = 0
    /\ gd_ram_size = 0
    /\ bd = [i \in 0..(nr_dram_banks - 1) |-> NoBank]
    /\ warned = FALSE
    /\ firewall = {}
    /\ priv_info = [base |-> 0, size |-> 0]

\* First boot after power was applied: BOOT_SCRATCH_POR0 holds no progress
\* marker, BOOT_SCRATCH_COLD3 holds what the earlier boot stages wrote.
Init ==
    /\ boot = 1
    /\ prev_run = "none"
    /\ scratch_por0 = Por0Foreign
    /\ scratch_cold3 \in Cold3Values
    /\ nr_dram_banks \in NrDramBanksValues
    /\ Volatile

\* an error path that returns without free(io96b_ctrl)
Fail_leak(r, e) ==
    /\ pc' = "failed"
    /\ ret' = r
    /\ err' = e
    /\ UNCHANGED heap

\* an error path that notes the error and goes on with the last steps
Fail_continue(r, e) ==
    /\ pc' = "firewall"
    /\ ret' = r
    /\ err' = e
    /\ UNCHANGED heap

\* return ret on an error path: free(io96b_ctrl); return ret;
Fail(r, e) ==
    /\ pc' = "failed"
    /\ ret' = r
    /\ err' = e
    /\ heap' = "freed"

\* hang(): the boot stops inside the driver
Hang(e) ==
    /\ pc' = "hang"
    /\ err' = e
    /\ UNCHANGED << ret, heap >>

Goto(l) ==
    /\ pc' = l
    /\ UNCHANGED << ret, err, heap >>

(***************************************************************************)
(* sdram_mmr_init_full, step by step.                                      *)
(***************************************************************************)
\* lines 214-232: allocation, reset type, hang marker sampled, marker set
Entry ==
    /\ pc = "entry"
    /\ heap' = "allocated"
    /\ reset_t' = get_reset_type(scratch_cold3)
    /\ is_ddr_hang_be4_rst' = is_ddr_init_hang(scratch_por0)
    /\ scratch_por0' = ddr_init_inprogress(scratch_por0, TRUE)
    /\ pc' = "handoff"
    /\ UNCHANGED << boot, prev_run, scratch_cold3, nr_dram_banks, full_mem_init, ret, err,
                    handoff_ok, handoff_word, plat, io96b_ctrl, sideband,
                    mpfe_config, ccu_profile, trig_count, bist_count, hw_size,
                    gd_ram_size, bd, warned, firewall, priv_info >>

\* populate_ddr_handoff, line 117: socfpga_handoff_read fills handoff_table
\* or fails; its result is not looked at.  When it fails the table is an
\* uninitialised array, so the word read from it is any value.
HandoffRead ==
    /\ pc = "handoff"
    /\ \E ok \in BOOLEAN, w \in HandoffWords :
        /\ handoff_ok' = ok
        /\ handoff_word' = w
    /\ Goto("handoff_fields")
    /\ UNCHANGED << boot, prev_run, scratch_por0, scratch_cold3, nr_dram_banks, reset_t,
                    is_ddr_hang_be4_rst, full_mem_init, plat, io96b_ctrl,
                    sideband, mpfe_config, ccu_profile, trig_count, bist_count,
                    hw_size, gd_ram_size, bd, warned, firewall, priv_info >>

\* populate_ddr_handoff, lines 119-148, and lines 239-243 of the caller: the
\* fields are taken from the word, the function returns 0 and the table
\* goes out of scope
PopulateHandoff ==
    /\ pc = "handoff_fields"
    /\ plat' = [dualport |-> handoff_dualport(handoff_word),
                dualemif |-> handoff_dualemif(handoff_word)]
    /\ io96b_ctrl' =
         [io96b_ctrl EXCEPT
            !.num_port = handoff_num_port(handoff_word),
            !.num_instance = handoff_num_instance(handoff_word),
            !.io96b_pll = handoff_io96b_pll(handoff_word),
            !.io96b_csr_addr =
                [i \in 0..1 |-> IF i < handoff_num_instance(handoff_word)
                                THEN io96b_csr_reg_addr[i] ELSE "unset"]]
    /\ handoff_ok' = TRUE
    /\ handoff_word' = {}
    /\ Goto("sideband")
    /\ UNCHANGED << boot, prev_run, scratch_por0, scratch_cold3, nr_dram_banks, reset_t,
                    is_ddr_hang_be4_rst, full_mem_init, sideband, mpfe_config,
                    ccu_profile, trig_count, bist_count, hw_size, gd_ram_size,
                    bd, warned, firewall, priv_info >>

\* lines 246-251 with config_mpfe_sideband_mgr (151-169) and
\* set_mpfe_config (72-84); both return 0
ConfigSideband ==
    /\ pc = "sideband"
    /\ sideband' = setbits_le32(
                       setbits_le32(sideband,
                                    IF plat.dualport # 0 THEN BIT(4) ELSE {}),
                       IF plat.dualemif # 0 THEN BIT(5) ELSE {})
    /\ mpfe_config' = IF plat.dualemif # 0
                      THEN setbits_le32(setbits_le32(mpfe_config, BIT(2)), BIT(8))
                      ELSE mpfe_config
    /\ Goto("ccu")
    /\ UNCHANGED << boot, prev_run, scratch_por0, scratch_cold3, nr_dram_banks, reset_t,
                    is_ddr_hang_be4_rst, full_mem_init, handoff_ok, handoff_word,
                    plat, io96b_ctrl, ccu_profile, trig_count, bist_count,
                    hw_size, gd_ram_size, bd, warned, firewall, priv_info >>

\* line 254 with config_ccu_mgr (171-190): hang() when the profile device
\* cannot be found
ConfigCcu ==
    /\ pc = "ccu"
    /\ \E r \in {0, -ENODEV} :
        IF r # 0
        THEN /\ Hang("ProfileNotFound")
             /\ UNCHANGED ccu_profile
        ELSE /\ ccu_profile' = ccu_profile \cup {ccu_profile_name(plat)}
             /\ Goto("cal_init")
    /\ UNCHANGED << boot, prev_run, scratch_por0, scratch_cold3, nr_dram_banks, reset_t,
                    is_ddr_hang_be4_rst, full_mem_init, handoff_ok, handoff_word,
                    plat, io96b_ctrl, sideband, mpfe_config, trig_count,
                    bist_count, hw_size, gd_ram_size, bd, warned, firewall,
                    priv_info >>

\* Calibration results the sequencer can report for n discovered instances:
\* a flag per discovered instance, FALSE for the instances not discovered.
CalResults(n) ==
    { c \in [0..1 -> BOOLEAN] : \A i \in 0..1 : i >= n => ~c[i] }

\* init_mem_cal / trig_mem_cal (iossm_mailbox): the per-instance flags are
\* what the sequencer reports, the aggregate flag is their conjunction.
cal_report(ctrl, c) ==
    [ctrl EXCEPT !.cal_status = c,
                 !.overall_cal_status =
                     \A i \in 0..(ctrl.num_instance - 1) : c[i]]

\* lines 257-263: ckgen_lock, init_mem_cal, io96b_mb_init
InitMemCal ==
    /\ pc = "cal_init"
    /\ \E c \in CalResults(io96b_ctrl.num_instance) :
        io96b_ctrl' = cal_report([io96b_ctrl EXCEPT !.ckgen_lock = TRUE], c)
    /\ Goto("dbe_check")
    /\ UNCHANGED << boot, prev_run, scratch_por0, scratch_cold3, nr_dram_banks, reset_t,
                    is_ddr_hang_be4_rst, full_mem_init, handoff_ok, handoff_word,
                    plat, sideband, mpfe_config, ccu_profile, trig_count,
                    bist_count, hw_size, gd_ram_size, bd, warned, firewall,
                    priv_info >>

\* the DBE test clearing the aggregate flag only
dbe_clear_aggregate_only(ctrl, cold3) ==
    IF ddr_ecc_dbe_status(cold3)
    THEN [ctrl EXCEPT !.overall_cal_status = FALSE]
    ELSE ctrl

\* lines 266-271: the calibration flags as left by the DDR DBE test
dbe_clear(ctrl, cold3) ==
    IF ddr_ecc_dbe_status(cold3)
    THEN [ctrl EXCEPT
            !.cal_status = [i \in 0..1 |-> IF i < ctrl.num_instance
                                           THEN FALSE ELSE ctrl.cal_status[i]],
            !.overall_cal_status = FALSE]
    ELSE ctrl

DbeCheck ==
    /\ pc = "dbe_check"
    /\ io96b_ctrl' = dbe_clear(io96b_ctrl, scratch_cold3)
    /\ Goto("recal")
    /\ UNCHANGED << boot, prev_run, scratch_por0, scratch_cold3, nr_dram_banks, reset_t,
                    is_ddr_hang_be4_rst, full_mem_init, handoff_ok, handoff_word,
                    plat, sideband, mpfe_config, ccu_profile, trig_count,
                    bist_count, hw_size, gd_ram_size, bd, warned, firewall,
                    priv_info >>

\* lines 274-279: trig_mem_cal when the aggregate flag is false; its outcome
\* is not looked at and "Calibration success" is printed in either case
Recalibrate ==
    /\ pc = "recal"
    /\ IF need_recal(io96b_ctrl)
       THEN /\ \E c \in CalResults(io96b_ctrl.num_instance) :
                 io96b_ctrl' = cal_report(io96b_ctrl, c)
            /\ trig_count' = trig_count + 1
       ELSE UNCHANGED << io96b_ctrl, trig_count >>
    /\ Goto("technology")
    /\ UNCHANGED << boot, prev_run, scratch_por0, scratch_cold3, nr_dram_banks, reset_t,
                    is_ddr_hang_be4_rst, full_mem_init, handoff_ok, handoff_word,
                    plat, sideband, mpfe_config, ccu_profile, bist_count,
                    hw_size, gd_ram_size, bd, warned, firewall, priv_info >>

\* lines 282-287: get_mem_technology
GetMemTechnology ==
    /\ pc = "technology"
    /\ \E r \in {0, -EIO} :
        IF r # 0 THEN Fail(r, "QueryFailed") ELSE Goto("width")
    /\ UNCHANGED << boot, prev_run, scratch_por0, scratch_cold3, nr_dram_banks, reset_t,
                    is_ddr_hang_be4_rst, full_mem_init, handoff_ok, handoff_word,
                    plat, io96b_ctrl, sideband, mpfe_config, ccu_profile,
                    trig_count, bist_count, hw_size, gd_ram_size, bd, warned,
                    firewall, priv_info >>

\* lines 289-296: get_mem_width_info, then hw_size
GetMemWidthInfo ==
    /\ pc = "width"
    /\ \E r \in {0, -EIO}, sz \in OverallSizes :
        IF r # 0
        THEN /\ Fail(r, "QueryFailed")
             /\ UNCHANGED << io96b_ctrl, hw_size >>
        ELSE /\ io96b_ctrl' = [io96b_ctrl EXCEPT !.overall_size = sz]
             /\ hw_size' = hw_size_of(sz)
             /\ Goto("decode")
    /\ UNCHANGED << boot, prev_run, scratch_por0, scratch_cold3, nr_dram_banks, reset_t,
                    is_ddr_hang_be4_rst, full_mem_init, handoff_ok, handoff_word,
                    plat, sideband, mpfe_config, ccu_profile, trig_count,
                    bist_count, gd_ram_size, bd, warned, firewall, priv_info >>

\* fdtdec_decode_ram_size: the banks of the memory node, as many as bd holds
dt_banks(layout, nr) ==
    [i \in 0..(nr - 1) |-> IF i < Len(layout) THEN layout[i + 1] ELSE NoBank]

\* lines 299-305: fdtdec_decode_ram_size; -ENXIO on failure
DecodeRamSize ==
    /\ pc = "decode"
    /\ \E r \in {0, -EIO}, layout \in {l \in DtLayouts : Len(l) <= nr_dram_banks} :
        IF r # 0
        THEN /\ Fail(-ENXIO, "DescriptorDecodeFailed")
             /\ UNCHANGED << gd_ram_size, bd >>
        ELSE /\ bd' = dt_banks(layout, nr_dram_banks)
             /\ gd_ram_size' = SumSizes(dt_banks(layout, nr_dram_banks), nr_dram_banks)
             /\ Goto("geometry")
    /\ UNCHANGED << boot, prev_run, scratch_por0, scratch_cold3, nr_dram_banks, reset_t,
                    is_ddr_hang_be4_rst, full_mem_init, handoff_ok, handoff_word,
                    plat, io96b_ctrl, sideband, mpfe_config, ccu_profile,
                    trig_count, bist_count, hw_size, warned, firewall, priv_info >>

\* the test of line 314 with its operands exchanged
size_exceeds_hw_reversed(declared, hw) == hw > declared

\* line 314: the declared size is greater than the hardware size
size_exceeds_hw(declared, hw) == declared > hw

\* lines 320-351: the banks after auto-partitioning hw into b
partition(hw, nr, b) == bank_loop(0, config_dram_banks(nr), hw, 0, b)

\* lines 307-353: mismatch warning, hang() on declared > hardware,
\* auto-partitioning when nothing is declared
Geometry ==
    /\ pc = "geometry"
    /\ warned' = (gd_ram_size > 0 /\ gd_ram_size # hw_size)
    /\ IF size_exceeds_hw(gd_ram_size, hw_size)
       THEN /\ Hang("GeometryExceedsHardware")
            /\ UNCHANGED << gd_ram_size, bd >>
       ELSE /\ IF gd_ram_size = 0 /\ hw_size > 0
               THEN /\ bd' = partition(hw_size, nr_dram_banks, bd)
                    /\ gd_ram_size' = hw_size
               ELSE UNCHANGED << gd_ram_size, bd >>
            /\ Goto("ecc_status")
    /\ UNCHANGED << boot, prev_run, scratch_por0, scratch_cold3, nr_dram_banks, reset_t,
                    is_ddr_hang_be4_rst, full_mem_init, handoff_ok, handoff_word,
                    plat, io96b_ctrl, sideband, mpfe_config, ccu_profile,
                    trig_count, bist_count, hw_size, firewall, priv_info >>

\* lines 355-360: ecc_enable_status
EccEnableStatus ==
    /\ pc = "ecc_status"
    /\ \E r \in {0, -EIO}, e \in BOOLEAN :
        IF r # 0
        THEN /\ Fail(r, "QueryFailed")
             /\ UNCHANGED io96b_ctrl
        ELSE /\ io96b_ctrl' = [io96b_ctrl EXCEPT !.ecc_status = e]
             /\ Goto("ecc_decision")
    /\ UNCHANGED << boot, prev_run, scratch_por0, scratch_cold3, nr_dram_banks, reset_t,
                    is_ddr_hang_be4_rst, full_mem_init, handoff_ok, handoff_word,
                    plat, sideband, mpfe_config, ccu_profile, trig_count,
                    bist_count, hw_size, gd_ram_size, bd, warned, firewall,
                    priv_info >>

\* lines 365-378: the full memory initialisation decision and
\* bist_mem_init_start
EccDecision ==
    /\ pc = "ecc_decision"
    /\ IF io96b_ctrl.ecc_status
       THEN /\ full_mem_init' = full_mem_init_of(scratch_cold3, is_ddr_hang_be4_rst)
            /\ IF need_full_init(full_mem_init', reset_t)
               THEN /\ bist_count' = bist_count + 1
                    /\ \E r \in {0, -EIO} :
                        IF r # 0 THEN Fail(r, "FullInitFailed")
                                 ELSE Goto("firewall")
               ELSE /\ UNCHANGED bist_count
                    /\ Goto("firewall")
       ELSE /\ UNCHANGED << full_mem_init, bist_count >>
            /\ Goto("firewall")
    /\ UNCHANGED << boot, prev_run, scratch_por0, scratch_cold3, nr_dram_banks, reset_t,
                    is_ddr_hang_be4_rst, handoff_ok, handoff_word, plat,
                    io96b_ctrl, sideband, mpfe_config, ccu_profile, trig_count,
                    hw_size, gd_ram_size, bd, warned, firewall, priv_info >>

\* lines 380-393: sdram_size_check (sdram_soc64.c, may stop the boot),
\* sdram_set_firewall and the three MPFE CSR firewall writes
FirewallSetup ==
    /\ pc = "firewall"
    /\ \E size_ok \in BOOLEAN :
        IF ~size_ok
        THEN /\ Hang("SizeCheckFailed")
             /\ UNCHANGED firewall
        ELSE /\ firewall' = firewall \cup {"IO96B0_reg", "IO96B1_reg", "noc_csr"}
             /\ Goto("finish")
    /\ UNCHANGED << boot, prev_run, scratch_por0, scratch_cold3, nr_dram_banks, reset_t,
                    is_ddr_hang_be4_rst, full_mem_init, handoff_ok, handoff_word,
                    plat, io96b_ctrl, sideband, mpfe_config, ccu_profile,
                    trig_count, bist_count, hw_size, gd_ram_size, bd, warned,
                    priv_info >>

\* the hardware size reported instead of gd->ram_size
info_size_hw(ram_size, hw) == hw

\* line 396: priv->info.size
info_size(ram_size, hw) == ram_size

\* lines 395-405: result for the caller, marker cleared, free, return 0
Finish ==
    /\ pc = "finish"
    /\ priv_info' = [base |-> bd[0].start,
                     size |-> info_size(gd_ram_size, hw_size)]
    /\ scratch_por0' = ddr_init_inprogress(scratch_por0, FALSE)
    /\ heap' = "freed"
    /\ pc' = "done"
    /\ ret' = 0
    /\ UNCHANGED << boot, prev_run, scratch_cold3, nr_dram_banks, reset_t,
                    is_ddr_hang_be4_rst, full_mem_init, err, handoff_ok,
                    handoff_word, plat, io96b_ctrl, sideband, mpfe_config,
                    ccu_profile, trig_count, bist_count, hw_size, gd_ram_size,
                    bd, warned, firewall >>

(***************************************************************************)
(* The next boot.  The run has ended (returned or halted) and the          *)
(* processor is reset: everything but the scratch registers is lost.  The  *)
(* earlier boot stages then record the reset type and the DBE markers in   *)
(* BOOT_SCRATCH_COLD3; BOOT_SCRATCH_POR0 keeps its value unless the reset  *)
(* is a power-on reset.                                                    *)
(***************************************************************************)
por0_after_reset(por0, cold3) ==
    IF get_reset_type(cold3) = POR_RESET
    THEN clrbits_le32(por0, ALT_SYSMGR_SCRATCH_REG_POR_0_DDR_PROGRESS_MASK)
    ELSE por0

Reset ==
    /\ pc \in {"done", "failed", "hang"}
    /\ boot < MaxBoots
    /\ boot' = boot + 1
    /\ prev_run' = (IF pc = "done" THEN "success" ELSE "failure")
    /\ pc' = "reset"
    /\ UNCHANGED << scratch_por0, scratch_cold3, nr_dram_banks >>
    /\ reset_t' = POR_RESET
    /\ is_ddr_hang_be4_rst' = FALSE
    /\ full_mem_init' = FALSE
    /\ ret' = 0
    /\ err' = "none"
    /\ handoff_ok' = TRUE
    /\ handoff_word' = {}
    /\ plat' = [dualport |-> 0, dualemif |-> 0]
    /\ io96b_ctrl' = Io96bFresh
    /\ heap' = "none"
    /\ sideband' = {}
    /\ mpfe_config' = {}
    /\ ccu_profile' = {}
    /\ trig_count' = 0
    /\ bist_count' = 0
    /\ hw_size' = 0
    /\ gd_ram_size' = 0
    /\ bd' = [i \in 0..(nr_dram_banks - 1) |-> NoBank]
    /\ warned' = FALSE
    /\ firewall' = {}
    /\ priv_info' = [base |-> 0, size |-> 0]

BootStages ==
    /\ pc = "reset"
    /\ \E c \in Cold3Values :
        /\ scratch_cold3' = c
        /\ scratch_por0' = por0_after_reset(scratch_por0, c)
    /\ pc' = "entry"
    /\ UNCHANGED << boot, prev_run, nr_dram_banks, reset_t, is_ddr_hang_be4_rst,
                    full_mem_init, ret, err, handoff_ok, handoff_word, plat,
                    io96b_ctrl, heap, sideband, mpfe_config, ccu_profile,
                    trig_count, bist_count, hw_size, gd_ram_size, bd, warned,
                    firewall, priv_info >>

Next ==
    \/ Entry
    \/ HandoffRead
    \/ PopulateHandoff
    \/ ConfigSideband
    \/ ConfigCcu
    \/ InitMemCal
    \/ DbeCheck
    \/ Recalibrate
    \/ GetMemTechnology
    \/ GetMemWidthInfo
    \/ DecodeRamSize
    \/ Geometry
    \/ EccEnableStatus
    \/ EccDecision
    \/ FirewallSetup
    \/ Finish
    \/ Reset
    \/ BootStages

Spec == Init /\ [][Next]_vars

(***************************************************************************)
(* Vocabulary of the properties.  The markers are read off the register    *)
(* bits directly, not through the driver's helpers.                        *)
(***************************************************************************)
ProgressMarker == 0 \in scratch_por0

OcramDbeMarker == 0 \in scratch_cold3

DramDbeMarker == 1 \in scratch_cold3

\* reset-type field (bits 31..29) holds 1 (warm) or 2 (cold)
WarmOrColdReset ==
    \/ (29 \in scratch_cold3 /\ 30 \notin scratch_cold3 /\ 31 \notin scratch_cold3)
    \/ (29 \notin scratch_cold3 /\ 30 \in scratch_cold3 /\ 31 \notin scratch_cold3)

PowerOnReset ==
    29 \notin scratch_cold3 /\ 30 \notin scratch_cold3 /\ 31 \notin scratch_cold3

\* the run has taken the ECC decision of lines 365-378
PastEccDecision ==
    \/ pc \in {"firewall", "finish", "done"}
    \/ pc = "failed" /\ err = "FullInitFailed"
    \/ pc = "hang" /\ err = "SizeCheckFailed"

\* the run has passed the calibration step of lines 259-279
PastCalibration ==
    \/ pc \in {"technology", "width", "decode", "geometry", "ecc_status",
               "ecc_decision", "firewall", "finish", "done", "failed"}
    \/ pc = "hang" /\ err # "ProfileNotFound"

Bit(word, n) == IF n \in word THEN 1 ELSE 0

(***************************************************************************)
(* C1.  A run that reaches the ECC decision calls bist_mem_init_start      *)
(* (once) if and only if the memory is ECC capable and (the on-chip-RAM    *)
(* DBE marker, the DRAM DBE marker or the prior-in-progress flag is set,   *)
(* or the reset type is neither warm nor cold); never without ECC, always  *)
(* with ECC after a power-on reset.                                        *)
(***************************************************************************)
C1_FullInitDecision ==
    PastEccDecision =>
        /\ bist_count \in {0, 1}
        /\ bist_count = 1 <=>
             /\ io96b_ctrl.ecc_status
             /\ \/ OcramDbeMarker
                \/ DramDbeMarker
                \/ is_ddr_hang_be4_rst
                \/ ~WarmOrColdReset
        /\ ~io96b_ctrl.ecc_status => bist_count = 0
        /\ io96b_ctrl.ecc_status /\ PowerOnReset => bist_count = 1

\* scenario C: ECC capable, power-on reset, no marker set: full init ran
C1_Witness ==
    /\ pc = "firewall"
    /\ io96b_ctrl.ecc_status
    /\ PowerOnReset
    /\ ~OcramDbeMarker /\ ~DramDbeMarker /\ ~is_ddr_hang_be4_rst
    /\ bist_count = 1

(***************************************************************************)
(* C2.  Whenever a run has ended in a fatal error (an error returned to    *)
(* the caller, or a halt), the in-progress marker is still set.            *)
(***************************************************************************)
C2_MarkerKeptOnFailure ==
    pc \in {"failed", "hang"} => ProgressMarker

C2_Witness ==
    /\ pc = "failed"
    /\ err = "DescriptorDecodeFailed"
    /\ ret = -ENXIO
    /\ ProgressMarker

(***************************************************************************)
(* C3.  If calibration failed in the sequencer initialisation and the      *)
(* recalibration failed too, the run ends with CalibrationFailed: it does  *)
(* not go on to the technology and size queries.                           *)
(* (The DRAM DBE marker is clear, so trig_count = 1 means that the flag    *)
(* left by init_mem_cal was false.)                                        *)
(***************************************************************************)
C3_RecalFailureIsFatal ==
    (/\ PastCalibration
     /\ ~DramDbeMarker
     /\ trig_count = 1
     /\ ~io96b_ctrl.overall_cal_status)
    => (pc \in {"failed", "hang"} /\ err = "CalibrationFailed" /\ ProgressMarker)

(***************************************************************************)
(* C4.  In a run that reaches the calibration step, trig_mem_cal is        *)
(* called exactly once if the DRAM DBE marker is set or the aggregate      *)
(* calibration flag left by the sequencer initialisation is false, and     *)
(* not at all otherwise; never more than once in a run.                    *)
(* Stated over the two steps: the flag tested at line 274 is false iff     *)
(* the marker is set or the flag left by the initialisation was false;    *)
(* the call is made iff that flag is false; no other step calls it.        *)
(***************************************************************************)
C4_RecalOnce ==
    /\ [](trig_count \in {0, 1})
    /\ [][ /\ pc = "dbe_check" =>
                (io96b_ctrl'.overall_cal_status <=>
                    (io96b_ctrl.overall_cal_status /\ ~DramDbeMarker))
           /\ pc = "recal" =>
                trig_count' = (IF io96b_ctrl.overall_cal_status THEN 0 ELSE 1)
           /\ (pc # "recal" /\ pc' # "reset") => trig_count' = trig_count
           /\ pc \in {"entry", "handoff", "handoff_fields", "sideband", "ccu",
                      "cal_init", "dbe_check", "recal"} => trig_count = 0
         ]_vars

\* calibration passed in the initialisation, the DBE marker forced one
\* recalibration
C4_Witness ==
    /\ pc = "technology"
    /\ DramDbeMarker
    /\ trig_count = 1

(***************************************************************************)
(* C5.  For every hardware size, auto-partitioning (declared size 0)       *)
(* yields banks whose sizes sum to the hardware size, which is the         *)
(* resolved total size, and no bank is larger than its capacity in         *)
(* dram_bank_info.                                                         *)
(***************************************************************************)
C5_PartitionSumsToHwSize ==
    [][ (pc = "geometry" /\ gd_ram_size = 0) =>
            /\ gd_ram_size' = hw_size
            /\ SumSizes(bd', nr_dram_banks) = hw_size
            /\ \A i \in 0..(nr_dram_banks - 1) :
                 bd'[i].size <= (IF i < MEMORY_BANK_MAX_COUNT
                                 THEN dram_bank_info[i].max_size ELSE 0)
      ]_vars

(***************************************************************************)
(* C6.  As claimed: for a declared size greater than the hardware size     *)
(* the geometry step returns the GeometryExceedsHardware error to the      *)
(* caller, with no bank assignment.                                        *)
(***************************************************************************)
C6_ExceedsReturnsError ==
    [][ (pc = "geometry" /\ gd_ram_size > hw_size) =>
            (pc' = "failed" /\ ret' # 0 /\ bd' = bd) ]_vars

(***************************************************************************)
(* C6, amended.  For a declared size greater than the hardware size the    *)
(* geometry step halts the boot inside the driver (hang(): nothing is      *)
(* returned to the caller) with no bank assignment; the run never reaches  *)
(* the ECC decision, the full initialisation, the firewall writes or       *)
(* success.                                                                *)
(***************************************************************************)
C6_ExceedsHalts ==
    /\ [][ (pc = "geometry" /\ gd_ram_size > hw_size) =>
               /\ pc' = "hang"
               /\ err' = "GeometryExceedsHardware"
               /\ bd' = bd
               /\ gd_ram_size' = gd_ram_size
               /\ UNCHANGED << ret, priv_info >> ]_vars
    /\ [](gd_ram_size > hw_size =>
               /\ pc \in {"geometry", "hang"}
               /\ bist_count = 0
               /\ firewall = {}
               /\ ret = 0
               /\ priv_info = [base |-> 0, size |-> 0])

\* the device tree declares 4 GiB, the hardware has 2 GiB: halted
C6_Witness ==
    /\ pc = "hang"
    /\ err = "GeometryExceedsHardware"
    /\ gd_ram_size = 32
    /\ hw_size = 16
    /\ SumSizes(bd, nr_dram_banks) = 32

(***************************************************************************)
(* C7.  For 0 < declared < hardware size the geometry step prints the      *)
(* mismatch warning, is not fatal, does not auto-partition, and the run    *)
(* goes on with the declared size: on success the size given to the        *)
(* caller is the declared size, not the hardware size.                     *)
(***************************************************************************)
C7_DeclaredSmallerWins ==
    /\ [][ (pc = "geometry" /\ 0 < gd_ram_size /\ gd_ram_size < hw_size) =>
               /\ warned'
               /\ pc' = "ecc_status"
               /\ err' = "none"
               /\ bd' = bd
               /\ gd_ram_size' = gd_ram_size ]_vars
    /\ []((pc = "done" /\ warned) =>
               /\ priv_info.size = SumSizes(bd, nr_dram_banks)
               /\ priv_info.size = gd_ram_size
               /\ priv_info.size < hw_size
               /\ ret = 0)

\* scenario B: 2 GiB declared, 4 GiB of hardware, success with 2 GiB
C7_Witness ==
    /\ pc = "done"
    /\ warned
    /\ hw_size = 32
    /\ priv_info.size = 16

(***************************************************************************)
(* C8.  For every handoff word: num_port is 2 if bit 0 is set and 1        *)
(* otherwise, num_instance is 2 if bit 1 is set and 1 otherwise, whatever  *)
(* the other bits, and io96b_pll is exactly bits 16..19 of the word.       *)
(***************************************************************************)
C8_HandoffFields ==
    [][ pc = "handoff_fields" =>
            /\ io96b_ctrl'.num_port = (IF 0 \in handoff_word THEN 2 ELSE 1)
            /\ io96b_ctrl'.num_instance = (IF 1 \in handoff_word THEN 2 ELSE 1)
            /\ io96b_ctrl'.io96b_pll =
                   Bit(handoff_word, 16) + 2 * Bit(handoff_word, 17)
                   + 4 * Bit(handoff_word, 18) + 8 * Bit(handoff_word, 19)
      ]_vars

\* dual port, single EMIF, PLLs 0 and 3, from a word with bits set around
\* the fields
C8_Witness ==
    /\ pc = "sideband"
    /\ io96b_ctrl.num_port = 2
    /\ io96b_ctrl.num_instance = 1
    /\ io96b_ctrl.io96b_pll = 9

(***************************************************************************)
(* C9.  For every value of the scratch register get_reset_type returns     *)
(* one of the six enumerated reset types.                                  *)
(***************************************************************************)
C9_ResetTypeInEnum ==
    pc \notin {"entry", "reset"} => reset_t \in reset_type

(***************************************************************************)
(* C10.  If the handoff table cannot be read, populate_ddr_handoff fails,  *)
(* the failure reaches sdram_mmr_init_full and the run is aborted before   *)
(* any topology configuration or calibration.                              *)
(***************************************************************************)
C10_HandoffFailureAborts ==
    [][ (pc = "handoff_fields" /\ ~handoff_ok) =>
            (pc' = "failed" /\ ret' # 0 /\ plat' = plat) ]_vars

\* the three firewall CSR registers of lines 387-391
FirewallRegs == {"IO96B0_reg", "IO96B1_reg", "noc_csr"}

\* the run is between its first and its last statement
InRun ==
    pc \in {"handoff", "handoff_fields", "sideband", "ccu", "cal_init",
            "dbe_check", "recal", "technology", "width", "decode", "geometry",
            "ecc_status", "ecc_decision", "firewall", "finish"}

(***************************************************************************)
(* C11.  As claimed: the io96b_ctrl allocation is released on every exit   *)
(* path of the run, success, error return or halt.                         *)
(***************************************************************************)
C11_FreedOnEveryExit ==
    pc \in {"done", "failed", "hang"} => heap = "freed"

(***************************************************************************)
(* C11, amended.  The io96b_ctrl allocation is released exactly once on    *)
(* every path that returns to the caller (success or error); on the        *)
(* halting paths (hang()) it is not released and the boot stops with the   *)
(* allocation live.  It is live during the whole run, and after the        *)
(* release no step of the run follows: no use and no second release.       *)
(***************************************************************************)
C11_FreedOnEveryReturn ==
    /\ [](pc \in {"done", "failed"} => heap = "freed")
    /\ [](pc = "hang" => heap = "allocated")
    /\ [](InRun => heap = "allocated")
    /\ [][heap = "freed" => pc' = "reset"]_vars
    /\ [][(heap # "freed" /\ heap' = "freed") =>
              (heap = "allocated" /\ pc' \in {"done", "failed"})]_vars

\* an error return of the full initialisation, allocation released
C11_Witness ==
    /\ pc = "failed"
    /\ err = "FullInitFailed"
    /\ heap = "freed"

(***************************************************************************)
(* C12.  A run activates one CCU profile at most: once config_ccu_mgr      *)
(* has succeeded exactly one is active, the interleaving-on profile if     *)
(* dual port or dual EMIF is in use and the interleaving-off profile       *)
(* otherwise; if the activation fails the run halts with no profile        *)
(* active and without starting calibration.                                *)
(***************************************************************************)
C12_OneCcuProfile ==
    /\ Cardinality(ccu_profile) <= 1
    /\ (InRun /\ pc \notin {"handoff", "handoff_fields", "sideband", "ccu"})
         \/ pc \in {"done", "failed"}
         \/ (pc = "hang" /\ err # "ProfileNotFound")
       => ccu_profile =
            (IF io96b_ctrl.num_port = 2 \/ io96b_ctrl.num_instance = 2
             THEN {"socfpga-secreg-ccu-interleaving-on"}
             ELSE {"socfpga-secreg-ccu-interleaving-off"})
    /\ err = "ProfileNotFound" =>
            /\ pc = "hang"
            /\ ccu_profile = {}
            /\ ~io96b_ctrl.ckgen_lock
            /\ trig_count = 0

\* dual EMIF on a single port: the interleaving-on profile alone
C12_Witness ==
    /\ pc = "cal_init"
    /\ io96b_ctrl.num_port = 1
    /\ io96b_ctrl.num_instance = 2
    /\ ccu_profile = {"socfpga-secreg-ccu-interleaving-on"}

(***************************************************************************)
(* C13.  The firewall registers are written only when the aggregate        *)
(* calibration status is true (and the geometry is resolved).              *)
(***************************************************************************)
C13_FirewallOnlyCalibrated ==
    firewall # {} => io96b_ctrl.overall_cal_status

(***************************************************************************)
(* C14.  A run that returns success has cleared the in-progress marker,    *)
(* and the marker is cleared only by the last step of a run whose          *)
(* firewall registers are all written (and whose full initialisation, if   *)
(* one was required, has run and succeeded); the marker is set by the      *)
(* first step of every run and stays set through every step that can       *)
(* fail.                                                                   *)
(***************************************************************************)
C14_MarkerClearedLast ==
    /\ [](pc = "done" =>
            /\ ~ProgressMarker
            /\ firewall = FirewallRegs
            /\ need_full_init(full_mem_init, reset_t) /\ io96b_ctrl.ecc_status
                 => bist_count = 1)
    /\ [](InRun \/ pc \in {"failed", "hang"} => ProgressMarker)
    /\ [][pc = "entry" => (pc' = "handoff" /\ ProgressMarker')]_vars
    /\ [][(ProgressMarker /\ ~ProgressMarker') =>
            \/ pc = "reset"
            \/ /\ pc = "finish"
               /\ pc' = "done"
               /\ firewall = FirewallRegs
               /\ err = "none"]_vars

\* a successful run after a required full initialisation
C14_Witness ==
    /\ pc = "done"
    /\ ret = 0
    /\ bist_count = 1
    /\ firewall = FirewallRegs
    /\ ~ProgressMarker

\* total capacity of the banks before bank k in dram_bank_info
RECURSIVE CapacityBefore(_)
CapacityBefore(k) ==
    IF k = 0 THEN 0 ELSE dram_bank_info[k - 1].max_size + CapacityBefore(k - 1)

\* layout b fills the first n banks in table order up to a last bank k
FilledInOrder(b, n, hw) ==
    \E k \in 0..(n - 1) :
        /\ \A i \in 0..(k - 1) :
              b[i] = [start |-> dram_bank_info[i].start,
                      size  |-> dram_bank_info[i].max_size]
        /\ b[k].start = dram_bank_info[k].start
        /\ b[k].size = hw - CapacityBefore(k)
        /\ 0 < b[k].size
        /\ b[k].size <= dram_bank_info[k].max_size
        /\ \A i \in DOMAIN b : i > k => b[i] = NoBank

(***************************************************************************)
(* C15.  Auto-partitioning (declared size 0, hardware size > 0) fills the  *)
(* banks in table order: for some k below min(configured bank count, 3)    *)
(* the banks before k get their full capacity and fixed start, bank k      *)
(* gets exactly the remainder (0 < remainder <= its capacity) and no       *)
(* later bank is assigned; 4 GiB gives 2 GiB in bank 0 and 2 GiB in bank 1.*)
(***************************************************************************)
C15_FilledInTableOrder ==
    [][ (pc = "geometry" /\ gd_ram_size = 0 /\ hw_size > 0) =>
            /\ FilledInOrder(bd', config_dram_banks(nr_dram_banks), hw_size)
            /\ hw_size = 4 * SZ_1G =>
                 /\ bd'[0] = [start |-> dram_bank_info[0].start, size |-> 2 * SZ_1G]
                 /\ bd'[1] = [start |-> dram_bank_info[1].start, size |-> 2 * SZ_1G]
      ]_vars

(***************************************************************************)
(* C16.  No partial continuation: once a step of a run has reported a      *)
(* fatal error the run is over (returned or halted) and no later step of   *)
(* the sequence executes; a run that ends in an error has written no       *)
(* firewall register and has given the caller no base address and size.    *)
(***************************************************************************)
C16_NoPartialContinuation ==
    /\ [](err # "none" =>
            /\ pc \in {"failed", "hang"}
            /\ firewall = {}
            /\ priv_info = [base |-> 0, size |-> 0])
    /\ [](pc = "failed" => (err # "none" /\ ret # 0))
    /\ [](pc = "hang" => err # "none")
    /\ [][(pc \in {"failed", "hang"}) => pc' = "reset"]_vars

\* a descriptor decode failure: error returned, nothing after it ran
C16_Witness ==
    /\ pc = "failed"
    /\ err = "DescriptorDecodeFailed"
    /\ ret = -ENXIO
    /\ firewall = {}
    /\ bist_count = 0

(***************************************************************************)
(* C17.  Across boots: when the previous run ended without success (error  *)
(* return or halt) and this boot's run finds the memory ECC capable and    *)
(* reaches the ECC decision, it performs the full memory initialisation,   *)
(* whatever the reset type: the marker is still set after any reset but a  *)
(* power-on reset, and a power-on reset is neither warm nor cold.          *)
(***************************************************************************)
C17_FullInitAfterFailedRun ==
    /\ (prev_run = "failure" /\ PastEccDecision /\ io96b_ctrl.ecc_status)
         => bist_count = 1
    /\ (prev_run = "failure" /\ ~PowerOnReset /\ (InRun \/ pc \in {"done", "failed", "hang"}))
         => is_ddr_hang_be4_rst

\* warm or cold reset after a failed run, no DBE marker: the hang flag
\* alone has forced the full initialisation
C17_Witness ==
    /\ prev_run = "failure"
    /\ WarmOrColdReset
    /\ ~OcramDbeMarker
    /\ ~DramDbeMarker
    /\ io96b_ctrl.ecc_status
    /\ pc = "firewall"
    /\ bist_count = 1

(***************************************************************************)
(* C18.  Across boots: when the previous run returned success and this     *)
(* boot is a warm or cold reset with both DBE markers clear, the           *)
(* prior-in-progress flag of this run is false (sampled before the run     *)
(* sets the marker) and the run, with ECC capable memory, skips the full   *)
(* memory initialisation.                                                  *)
(***************************************************************************)
C18_SkipAfterSuccessfulRun ==
    (/\ prev_run = "success"
     /\ WarmOrColdReset
     /\ ~OcramDbeMarker
     /\ ~DramDbeMarker
     /\ InRun \/ pc \in {"done", "failed", "hang"})
    => /\ ~is_ddr_hang_be4_rst
       /\ ProgressMarker \/ pc = "done"
       /\ bist_count = 0

\* second boot, ECC capable memory, run finished without full initialisation
C18_Witness ==
    /\ prev_run = "success"
    /\ WarmOrColdReset
    /\ ~OcramDbeMarker
    /\ ~DramDbeMarker
    /\ io96b_ctrl.ecc_status
    /\ pc = "done"
    /\ bist_count = 0

\* every discovered instance of ctrl is flagged as calibrated
AllInstancesCalibrated(ctrl) ==
    \A i \in 0..(ctrl.num_instance - 1) : ctrl.cal_status[i]

(***************************************************************************)
(* C19.  From the sequencer initialisation on, the aggregate calibration   *)
(* status is true if and only if the calibration status of every           *)
(* discovered instance is true; with the DRAM DBE marker set, the flag of  *)
(* every discovered instance and the aggregate flag are all false when     *)
(* the recalibration is about to be triggered.                             *)
(***************************************************************************)
C19_AggregateIsConjunction ==
    /\ (pc \in {"dbe_check", "recal"} \/ PastCalibration)
         => (io96b_ctrl.overall_cal_status <=> AllInstancesCalibrated(io96b_ctrl))
    /\ (pc = "recal" /\ DramDbeMarker)
         => /\ ~io96b_ctrl.overall_cal_status
            /\ \A i \in 0..(io96b_ctrl.num_instance - 1) : ~io96b_ctrl.cal_status[i]
            /\ trig_count = 0

\* two instances, DRAM DBE marker set: everything cleared before trig_mem_cal
C19_Witness ==
    /\ pc = "recal"
    /\ DramDbeMarker
    /\ io96b_ctrl.num_instance = 2
    /\ ~io96b_ctrl.overall_cal_status
    /\ ~io96b_ctrl.cal_status[0]
    /\ ~io96b_ctrl.cal_status[1]
    /\ trig_count = 0

(***************************************************************************)
(* C20.  A run changes nothing in the persistent scratch registers but     *)
(* the in-progress marker bit: BOOT_SCRATCH_COLD3 (both DBE markers and    *)
(* the reset-type field) is only read, and every other bit of              *)
(* BOOT_SCRATCH_POR0 keeps its value, in every step of every run,          *)
(* successful or not.                                                      *)
(***************************************************************************)
C20_OnlyMarkerWritten ==
    [][ pc # "reset" =>
            /\ scratch_cold3' = scratch_cold3
            /\ scratch_por0' \ ALT_SYSMGR_SCRATCH_REG_POR_0_DDR_PROGRESS_MASK
                 = scratch_por0 \ ALT_SYSMGR_SCRATCH_REG_POR_0_DDR_PROGRESS_MASK
      ]_vars

\* a finished run with the DRAM DBE marker and the foreign bits still there
C20_Witness ==
    /\ pc = "done"
    /\ DramDbeMarker
    /\ trig_count = 1
    /\ Cold3Foreign \subseteq scratch_cold3
    /\ scratch_por0 = Por0Foreign

====
